---- MODULE Spec2Model ----
(***************************************************************************)
(* Model of the customer-support message pipeline: ChatService             *)
(* (processMessage, saveMessage, getConversationHistory,                   *)
(* getUserConversations, clearConversation, determinePriority, getStats),  *)
(* the POST /message and DELETE /conversation/:id routes that call it, and *)
(* KnowledgeBaseService (searchKnowledgeBase, searchKnowledgeBaseWithSDK). *)
(*                                                                         *)
(* processMessage is an async function: it runs atomically from one await  *)
(* to the next, and other calls run in between.  Each await is one pc      *)
(* value of the call; one action models the code between two awaits.       *)
(*                                                                         *)
(* Numbers in [0,1] (confidence) are percentages 0..100; the two rounded   *)
(* statistics are in hundredths (1.67 is 167).                             *)
(***************************************************************************)
EXTENDS Integers, Sequences, FiniteSets, TLC

VARIABLES
    conversations,  \* ChatService.conversations: Map<string, ChatMessage[]>
    now,            \* the last value read from the wall clock (Date.now())
    calls,          \* one record per processMessage call: its position and locals
    lastClear,      \* the last DELETE /conversation/:id exchange
    nClears,        \* how many clearConversation calls were made
    evalA,          \* a determinePriority evaluation: inputs and result
    evalB,          \* a second, independent determinePriority evaluation
    search,         \* one KnowledgeBaseService search call: position and locals
    lastRead,       \* the last read operation on the store and what it returned
    post,           \* the last POST /message body and what the boundary answered
    chat            \* the state of the useChat hook and its pending send

vars == <<conversations, now, calls, lastClear, nClears, evalA, evalB, search, lastRead, post, chat>>

---------------------------------------------------------------------------
(* Bounds.                                                                 *)

\* The clock takes the values 0..MaxClock.
MaxClock == 1

\* At most MaxClears calls of clearConversation.
MaxClears == 1

\* Direct saveMessage calls fill a conversation up to MaxHistory messages.
MaxHistory == 2

\* The processMessage calls of a run; each is made at most once.
Tasks == {"t1", "t2"}

---------------------------------------------------------------------------
(* Optional values: undefined is the empty sequence, a value v is <<v>>.   *)

Undefined == <<>>

Some(v) == <<v>>

\* Mutant of Truthy: the supplied id is ignored.
TruthyNever(opt) == FALSE

\* JavaScript truthiness of an optional string: undefined and '' are falsy.
Truthy(opt) == opt # Undefined /\ opt[1] # ""

---------------------------------------------------------------------------
(* Inputs.                                                                 *)

\* Who makes which call: (user_id, message) of its ChatRequest.
Sender(t) ==
    IF t = "t1"
    THEN [user_id |-> "user_456", message |-> "How do I reset my password?"]
    ELSE [user_id |-> "user_789", message |-> "I need help with my billing issue"]

\* conversation_id values a client supplies besides ids returned to it:
\* none, the empty string (z.string().optional() accepts it), a fixed id.
SuppliedIds == { Undefined, Some(""), Some("conv_123") }

\* Math.random().toString(36).substr(2, 9)
RandomSuffixes == { "k3x9q2m1z" }

\* Outputs of the external classifier (AIService.classifyQuery): the three
\* classifications of tests/chat.test.ts.
Classifications ==
    { [category |-> "technical", confidence |-> 90],
      [category |-> "billing",   confidence |-> 80],
      [category |-> "general",   confidence |-> 30] }

\* What the retriever (searchKnowledgeBaseWithSDK) finds for a classified
\* query: entries for a technical one, nothing for the others.
KnowledgeBaseResults(classification) ==
    IF classification.category = "technical"
    THEN { << [id |-> "kb_1", title |-> "Password Reset Guide"],
              [id |-> "kb_2", title |-> "Account Billing Information"] >> }
    ELSE { <<>> }

Answer ==
    [response |-> "Go to the login page and click Forgot Password.",
     confidence |-> 95, requires_escalation |-> FALSE]

Handoff ==
    [response |-> "I may need more information to help you properly.",
     confidence |-> 60, requires_escalation |-> TRUE]

Greeting ==
    [response |-> "Hello! How can I help you today?",
     confidence |-> 40, requires_escalation |-> FALSE]

\* Outputs of the external generator (AIService.generateResponse) for a
\* classified query.
Generations(classification) ==
    CASE classification.category = "technical" -> {Answer, Handoff}
      [] classification.category = "billing"   -> {Handoff}
      [] OTHER                                 -> {Greeting, Answer}

NoClassification == [category |-> "", confidence |-> 0]

NoGeneration == [response |-> "", confidence |-> 0, requires_escalation |-> FALSE]

NoRequest == [message |-> "", conversation_id |-> Undefined, user_id |-> ""]

---------------------------------------------------------------------------
(* ChatService: pure helpers.                                              *)

\* `conv_${timestamp}_${randomSuffix}`
generateConversationId(timestamp, randomSuffix) ==
    "conv_" \o ToString(timestamp) \o "_" \o randomSuffix

\* `msg_${Date.now()}_user`, `msg_${Date.now()}_assistant`
MessageId(timestamp, role) ==
    "msg_" \o ToString(timestamp) \o "_" \o role

highPriorityCategories == {"billing", "refund", "complaint"}

mediumPriorityCategories == {"technical", "shipping", "returns"}

\* Mutant of determinePriority: 'complaint' is missing from the high list.
determinePriorityNoComplaint(classification, requiresEscalation) ==
    IF requiresEscalation THEN "high"
    ELSE IF classification.category \in {"billing", "refund"} THEN "high"
    ELSE IF classification.category \in mediumPriorityCategories THEN "medium"
    ELSE "low"

\* Mutant of determinePriority: a low classification confidence raises it.
determinePriorityByConfidence(classification, requiresEscalation) ==
    IF requiresEscalation \/ classification.confidence < 50 THEN "high"
    ELSE IF classification.category \in highPriorityCategories THEN "high"
    ELSE IF classification.category \in mediumPriorityCategories THEN "medium"
    ELSE "low"

\* Mutant of determinePriority: the escalation flag is not looked at.
determinePriorityCategoryOnly(classification, requiresEscalation) ==
    IF classification.category \in highPriorityCategories THEN "high"
    ELSE IF classification.category \in mediumPriorityCategories THEN "medium"
    ELSE "low"

determinePriority(classification, requiresEscalation) ==
    IF requiresEscalation THEN "high"
    ELSE IF classification.category \in highPriorityCategories THEN "high"
    ELSE IF classification.category \in mediumPriorityCategories THEN "medium"
    ELSE "low"

\* this.conversations.get(conversationId) || []
getConversationHistory(conversationId) ==
    IF conversationId \in DOMAIN conversations
    THEN conversations[conversationId]
    ELSE <<>>

\* Mutant of saveMessage: the new message replaces the history.
saveMessageOverwrite(store, conversationId, message) ==
    [k \in DOMAIN store \cup {conversationId} |->
        IF k = conversationId THEN <<message>> ELSE store[k]]

\* Mutant of saveMessage: unshift in place of push.
saveMessagePrepend(store, conversationId, message) ==
    LET messages == IF conversationId \in DOMAIN store
                    THEN store[conversationId] ELSE <<>>
    IN  [k \in DOMAIN store \cup {conversationId} |->
            IF k = conversationId THEN <<message>> \o messages ELSE store[k]]

\* Mutant of saveMessage: one array is shared by all the conversations.
saveMessageSharedArray(store, conversationId, message) ==
    [k \in DOMAIN store \cup {conversationId} |->
        IF k \in DOMAIN store THEN Append(store[k], message) ELSE <<message>>]

\* The store after saveMessage(conversationId, message): get || [], push, set.
saveMessage(store, conversationId, message) ==
    LET messages == IF conversationId \in DOMAIN store
                    THEN store[conversationId] ELSE <<>>
    IN  [k \in DOMAIN store \cup {conversationId} |->
            IF k = conversationId THEN Append(messages, message) ELSE store[k]]

\* The ids of the conversations holding a message with role 'user'; the
\* userId argument is not looked at.
getUserConversations(userId) ==
    { conversationId \in DOMAIN conversations :
        \E i \in 1..Len(conversations[conversationId]) :
            conversations[conversationId][i].role = "user" }

\* Sum of the history lengths of the conversations in ids.
RECURSIVE SumMessages(_, _)
SumMessages(store, ids) ==
    IF ids = {} THEN 0
    ELSE LET k == CHOOSE x \in ids : TRUE
         IN  Len(store[k]) + SumMessages(store, ids \ {k})

\* messages.some(msg => msg.role === 'assistant' &&
\*                      msg.metadata?.category === 'escalation')
hasEscalation(messages) ==
    \E i \in 1..Len(messages) :
        /\ messages[i].role = "assistant"
        /\ messages[i].metadata # Undefined
        /\ messages[i].metadata[1].category = "escalation"

\* Mutant of RoundHundredths: Math.floor in place of Math.round.
FloorHundredths(n, d) == (100 * n) \div d

\* Math.round((n / d) * 100) / 100, in hundredths, for n >= 0 and d > 0.
RoundHundredths(n, d) == (200 * n + d) \div (2 * d)

\* Mutant of getStats: only the messages with role 'user' are counted.
getStatsUserMessages ==
    LET totalConversations == Cardinality(DOMAIN conversations)
        totalMessages ==
            SumMessages([ k \in DOMAIN conversations |->
                            SelectSeq(conversations[k], LAMBDA m : m.role = "user") ],
                        DOMAIN conversations)
    IN  [ total_conversations |-> totalConversations,
          total_messages |-> totalMessages,
          average_messages_per_conversation |->
              IF totalConversations > 0
              THEN RoundHundredths(totalMessages, totalConversations)
              ELSE 0,
          escalation_rate |-> 0 ]

getStats ==
    LET totalConversations == Cardinality(DOMAIN conversations)
        totalMessages == SumMessages(conversations, DOMAIN conversations)
        escalatedConversations ==
            Cardinality({ k \in DOMAIN conversations : hasEscalation(conversations[k]) })
    IN  [ total_conversations |-> totalConversations,
          total_messages |-> totalMessages,
          average_messages_per_conversation |->
              IF totalConversations > 0
              THEN RoundHundredths(totalMessages, totalConversations)
              ELSE 0,
          escalation_rate |->
              IF totalConversations > 0
              THEN RoundHundredths(escalatedConversations, totalConversations)
              ELSE 0 ]

---------------------------------------------------------------------------
(* AIService is not part of the sources; its two policy operations follow  *)
(* the specification's section 4.3.                                        *)

\* Policy threshold below which a confidence counts as low.
EscalationConfidenceThreshold == 50

shouldEscalate(message, classification, generation) ==
    \/ generation.requires_escalation
    \/ /\ classification.confidence < EscalationConfidenceThreshold
       /\ generation.confidence < EscalationConfidenceThreshold

getSuggestedActions(classification, generation, requiresEscalation) ==
    IF requiresEscalation
    THEN <<"Contact support">>
    ELSE <<"Try rephrasing your question">>

---------------------------------------------------------------------------
(* ChatService.processMessage.                                             *)

\* What a read of Date.now() can return: the clock never goes back.
DateNow == now..MaxClock

InFlight == {"awaitClassify", "awaitSearch", "awaitGenerate", "awaitEscalate",
             "awaitSaveUser", "awaitSaveAssistant"}

\* The await a collaborator failure can end, and the cause it throws.
FailureCause(pc) ==
    CASE pc = "awaitClassify" -> "Classification failed"
      [] pc = "awaitSearch"   -> "Failed to search knowledge base"
      [] pc = "awaitGenerate" -> "Generation failed"
      [] pc = "awaitEscalate" -> "Escalation check failed"

InitCall ==
    [ pc |-> "idle",
      request |-> NoRequest,
      conversationId |-> "",
      classification |-> NoClassification,
      searchQuery |-> Undefined,
      searchFilters |-> Undefined,
      knowledgeBaseResults |-> <<>>,
      generationResult |-> NoGeneration,
      requiresEscalation |-> FALSE,
      response |-> Undefined,
      saveResults |-> <<>>,  \* what the saveMessage calls returned
      error |-> Undefined,
      \* history variables, not program state:
      alone |-> FALSE,       \* no other call was made since this one was
      histAtCall |-> <<>>,   \* while alone: the history of conversationId
                             \* when the call was made
      invoked |-> <<>> ]     \* the steps the call has begun, in order

\* A call other than those of t is made: no call but t's is alone any more.
Overlap(c, t) ==
    [u \in Tasks |->
        IF u # t THEN [c[u] EXCEPT !.alone = FALSE, !.histAtCall = <<>>] ELSE c[u]]

\* Ids a client holds because a response carried them.
ReturnedIds ==
    { calls[u].conversationId : u \in { v \in Tasks : calls[v].pc = "returned" } }

\* Lines 23-30 for the ChatRequest of sender s: resolve the conversation
\* id, call classifyQuery, await.
processMessage(t, s) ==
    /\ calls[t].pc = "idle"
    /\ \E cid \in SuppliedIds \cup { Some(id) : id \in ReturnedIds },
          randomSuffix \in RandomSuffixes,
          timestamp \in DateNow :
        LET conversationId ==
                IF Truthy(cid) THEN cid[1]
                ELSE generateConversationId(timestamp, randomSuffix)
        IN  /\ now' = IF Truthy(cid) THEN now ELSE timestamp
            /\ calls' = [ Overlap(calls, t) EXCEPT ![t] =
                [ @ EXCEPT
                    !.pc = "awaitClassify",
                    !.request = [ message |-> s.message,
                                  conversation_id |-> cid,
                                  user_id |-> s.user_id ],
                    !.conversationId = conversationId,
                    !.invoked = <<"classifyQuery">>,
                    !.alone = \A u \in Tasks \ {t} : calls[u].pc \notin InFlight,
                    !.histAtCall =
                        IF \A u \in Tasks \ {t} : calls[u].pc \notin InFlight
                        THEN getConversationHistory(conversationId)
                        ELSE <<>> ] ]
    /\ UNCHANGED <<conversations, lastClear, nClears, evalA, evalB, search, lastRead, chat>>

\* processMessage called by a caller of the service with its request.
Start(t) == processMessage(t, Sender(t)) /\ UNCHANGED post

\* Mutant of BuildSearchFilters: the category is passed on even when it is
\* 'general'.
BuildSearchFiltersAnyCategory(classification) ==
    [ category |-> Some(classification.category),
      priority |-> Undefined,
      product_type |-> Undefined,
      limit |-> Some(5),
      relevance_threshold |-> Some(70) ]

\* Lines 33-37: the SearchFilters literal; priority and product_type are
\* not among its keys.
BuildSearchFilters(classification) ==
    [ category |-> IF classification.category # "general"
                   THEN Some(classification.category)
                   ELSE Undefined,
      priority |-> Undefined,
      product_type |-> Undefined,
      limit |-> Some(5),
      relevance_threshold |-> Some(70) ]

\* Lines 30-42: the classification arrives; build the filters, call the
\* retriever with the request's message, await.
ClassifyReturn(t) ==
    /\ calls[t].pc = "awaitClassify"
    /\ \E classification \in Classifications :
        calls' = [ calls EXCEPT ![t] =
            [ @ EXCEPT
                !.pc = "awaitSearch",
                !.classification = classification,
                !.searchQuery = Some(calls[t].request.message),
                !.searchFilters = Some(BuildSearchFilters(classification)),
                !.invoked = Append(@, "searchKnowledgeBaseWithSDK") ] ]
    /\ UNCHANGED <<conversations, now, lastClear, nClears, evalA, evalB, search, lastRead, post, chat>>

\* Lines 39-49: the entries arrive; call generateResponse, await.
SearchReturn(t) ==
    /\ calls[t].pc = "awaitSearch"
    /\ \E knowledgeBaseResults \in KnowledgeBaseResults(calls[t].classification) :
        calls' = [ calls EXCEPT ![t] =
            [ @ EXCEPT !.pc = "awaitGenerate",
                       !.knowledgeBaseResults = knowledgeBaseResults,
                       !.invoked = Append(@, "generateResponse") ] ]
    /\ UNCHANGED <<conversations, now, lastClear, nClears, evalA, evalB, search, lastRead, post, chat>>

\* Lines 45-56: the generation arrives; call shouldEscalate, await.
GenerateReturn(t) ==
    /\ calls[t].pc = "awaitGenerate"
    /\ \E generationResult \in Generations(calls[t].classification) :
        calls' = [ calls EXCEPT ![t] =
            [ @ EXCEPT !.pc = "awaitEscalate",
                       !.generationResult = generationResult,
                       !.invoked = Append(@, "shouldEscalate") ] ]
    /\ UNCHANGED <<conversations, now, lastClear, nClears, evalA, evalB, search, lastRead, post, chat>>

\* Mutant of BuildResponse: the confidence is the classifier's.
BuildResponseClassifierConfidence(c, requiresEscalation) ==
    [ message |-> c.generationResult.response,
      confidence |-> c.classification.confidence,
      sources |-> c.knowledgeBaseResults,
      suggested_actions |->
          getSuggestedActions(c.classification, c.generationResult, requiresEscalation),
      requires_escalation |-> requiresEscalation,
      conversation_id |-> c.conversationId,
      metadata |-> [ category |-> c.classification.category,
                     priority |-> determinePriority(c.classification, requiresEscalation) ] ]

\* The ChatResponse of lines 67-79 (processing_time is left out).
BuildResponse(c, requiresEscalation) ==
    [ message |-> c.generationResult.response,
      confidence |-> c.generationResult.confidence,
      sources |-> c.knowledgeBaseResults,
      suggested_actions |->
          getSuggestedActions(c.classification, c.generationResult, requiresEscalation),
      requires_escalation |-> requiresEscalation,
      conversation_id |-> c.conversationId,
      metadata |-> [ category |-> c.classification.category,
                     priority |-> determinePriority(c.classification, requiresEscalation) ] ]

\* The message of lines 82-87; req names the call, it is not a field of the code.
UserMessage(t, c, timestamp) ==
    [ id |-> MessageId(timestamp, "user"),
      content |-> c.request.message,
      role |-> "user",
      timestamp |-> timestamp,
      metadata |-> Undefined,
      req |-> t ]

\* Mutant of AssistantMessage: the stored priority is computed without the
\* escalation decision.
AssistantMessageCategoryPriority(t, c, timestamp) ==
    LET response == c.response[1]
    IN  [ id |-> MessageId(timestamp, "assistant"),
          content |-> response.message,
          role |-> "assistant",
          timestamp |-> timestamp,
          metadata |-> Some(
              [ confidence |-> response.confidence,
                sources |-> [ i \in 1..Len(response.sources) |-> response.sources[i].title ],
                category |-> c.classification.category,
                priority |-> determinePriority(c.classification, FALSE) ]),
          req |-> t ]

\* The message of lines 89-100.
AssistantMessage(t, c, timestamp) ==
    LET response == c.response[1]
    IN  [ id |-> MessageId(timestamp, "assistant"),
          content |-> response.message,
          role |-> "assistant",
          timestamp |-> timestamp,
          metadata |-> Some(
              [ confidence |-> response.confidence,
                sources |-> [ i \in 1..Len(response.sources) |-> response.sources[i].title ],
                category |-> c.classification.category,
                priority |-> determinePriority(c.classification,
                                               response.requires_escalation) ]),
          req |-> t ]

\* saveMessage with its return value (lines 124-138): true after the push,
\* false from the catch when the try block threw; the error is logged and
\* not rethrown.
saveMessageResult(store, conversationId, message, tryThrows) ==
    IF tryThrows
    THEN [ store |-> store, result |-> FALSE ]
    ELSE [ store |-> saveMessage(store, conversationId, message), result |-> TRUE ]

\* Lines 52-87: the escalation decision arrives; suggested actions, the
\* response, then saveMessage runs for the user message before the await;
\* what it returns is not looked at.
EscalateReturnThen(t, tryThrows) ==
    /\ calls[t].pc = "awaitEscalate"
    /\ \E timestamp \in DateNow :
       LET c == calls[t]
           requiresEscalation ==
               shouldEscalate(c.request.message, c.classification, c.generationResult)
           built == [ c EXCEPT !.pc = "awaitSaveUser",
                               !.requiresEscalation = requiresEscalation,
                               !.response = Some(BuildResponse(c, requiresEscalation)) ]
           saved == saveMessageResult(conversations, c.conversationId,
                                      UserMessage(t, built, timestamp), tryThrows)
       IN  /\ calls' = [ calls EXCEPT ![t] =
                   [ built EXCEPT
                       !.saveResults = Append(@, saved.result),
                       !.invoked = @ \o <<"getSuggestedActions", "saveMessage(user)">> ] ]
           /\ conversations' = saved.store
           /\ now' = timestamp
    /\ UNCHANGED <<lastClear, nClears, evalA, evalB, search, lastRead, post, chat>>

\* The step with the in-memory Map, whose push does not throw.
EscalateReturn(t) == EscalateReturnThen(t, FALSE)

\* Lines 89-100: after the first save's await, saveMessage runs for the
\* assistant message, await.
SaveAssistantThen(t, tryThrows) ==
    /\ calls[t].pc = "awaitSaveUser"
    /\ \E timestamp \in DateNow :
        LET saved == saveMessageResult(conversations, calls[t].conversationId,
                                       AssistantMessage(t, calls[t], timestamp),
                                       tryThrows)
        IN  /\ calls' = [ calls EXCEPT ![t] =
                    [ @ EXCEPT !.pc = "awaitSaveAssistant",
                               !.saveResults = Append(@, saved.result),
                               !.invoked = Append(@, "saveMessage(assistant)") ] ]
            /\ conversations' = saved.store
            /\ now' = timestamp
    /\ UNCHANGED <<lastClear, nClears, evalA, evalB, search, lastRead, post, chat>>

SaveAssistant(t) == SaveAssistantThen(t, FALSE)

\* Line 102: return response.
Return(t) ==
    /\ calls[t].pc = "awaitSaveAssistant"
    /\ calls' = [ calls EXCEPT ![t].pc = "returned" ]
    /\ UNCHANGED <<conversations, now, lastClear, nClears, evalA, evalB, search, lastRead, post, chat>>

\* Mutant of CollaboratorFails: the escalation decision is awaited after the
\* user message was saved, so its failure comes after the first append.
CollaboratorFailsLate(t) ==
    /\ calls[t].pc \in {"awaitClassify", "awaitSearch", "awaitGenerate", "awaitSaveUser"}
    /\ calls' = [ calls EXCEPT ![t] =
           [ InitCall EXCEPT
               !.pc = "failed",
               !.request = calls[t].request,
               !.conversationId = calls[t].conversationId,
               !.alone = calls[t].alone,
               !.histAtCall = calls[t].histAtCall,
               !.invoked = calls[t].invoked,
               !.error = Some("Failed to process message: Escalation check failed") ] ]
    /\ UNCHANGED <<conversations, now, lastClear, nClears, evalA, evalB, search, lastRead, post, chat>>

\* Mutant of CollaboratorFails: the cause is rethrown as it is.
CollaboratorFailsUnwrapped(t) ==
    /\ calls[t].pc \in {"awaitClassify", "awaitSearch", "awaitGenerate", "awaitEscalate"}
    /\ calls' = [ calls EXCEPT ![t] =
           [ InitCall EXCEPT
               !.pc = "failed",
               !.request = calls[t].request,
               !.conversationId = calls[t].conversationId,
               !.alone = calls[t].alone,
               !.histAtCall = calls[t].histAtCall,
               !.invoked = calls[t].invoked,
               !.error = Some(FailureCause(calls[t].pc)) ] ]
    /\ UNCHANGED <<conversations, now, lastClear, nClears, evalA, evalB, search, lastRead, post, chat>>

\* Mutant of CollaboratorFails: the collaborator that rejected is called a
\* second time.
CollaboratorFailsRetry(t) ==
    /\ calls[t].pc \in {"awaitClassify", "awaitSearch", "awaitGenerate", "awaitEscalate"}
    /\ Len(SelectSeq(calls[t].invoked,
                     LAMBDA step : step = calls[t].invoked[Len(calls[t].invoked)])) = 1
    /\ calls' = [ calls EXCEPT ![t].invoked =
                     Append(@, calls[t].invoked[Len(calls[t].invoked)]) ]
    /\ UNCHANGED <<conversations, now, lastClear, nClears, evalA, evalB, search, lastRead, post, chat>>

\* Lines 103-106: an awaited collaborator rejects; the catch wraps the cause.
CollaboratorFails(t) ==
    /\ calls[t].pc \in {"awaitClassify", "awaitSearch", "awaitGenerate", "awaitEscalate"}
    /\ calls' = [ calls EXCEPT ![t] =
           [ InitCall EXCEPT
               !.pc = "failed",
               !.request = calls[t].request,
               !.conversationId = calls[t].conversationId,
               !.alone = calls[t].alone,
               !.histAtCall = calls[t].histAtCall,
               !.invoked = calls[t].invoked,
               !.error = Some("Failed to process message: "
                              \o FailureCause(calls[t].pc)) ] ]
    /\ UNCHANGED <<conversations, now, lastClear, nClears, evalA, evalB, search, lastRead, post, chat>>

---------------------------------------------------------------------------
(* POST /message: what the route handler answers for a call that ended.    *)

\* res.json({success: true, data}) after processMessage returned; the catch
\* answers 500 for an error that is not a ZodError, which processMessage
\* never throws.
PostMessageResponse(c) ==
    IF c.pc = "returned"
    THEN [ status |-> 200, success |-> TRUE, error |-> Undefined,
           message |-> Undefined, data |-> c.response ]
    ELSE [ status |-> 500, success |-> FALSE, error |-> Some("Internal server error"),
           message |-> c.error, data |-> Undefined ]

\* A request body: every key is optional for the client.
NoBody == [ message |-> Undefined, user_id |-> Undefined ]

\* Bodies a client of call t posts: message missing, empty, one blank,
\* or its text.
PostBodies(t) ==
    { [ message |-> message, user_id |-> Some(Sender(t).user_id) ] :
        message \in { Undefined, Some(""), Some(" "), Some(Sender(t).message) } }

\* Mutant of chatMessageSchemaParse: message is z.string() without min(1).
chatMessageSchemaParseNoMin(body) ==
    IF body.message = Undefined
    THEN [ ok |-> FALSE,
           errors |-> << [ path |-> "message", message |-> "message is required" ] >> ]
    ELSE [ ok |-> TRUE, errors |-> << >> ]

\* chatMessageSchema.parse(req.body), lines 11-19 and 27: message is a
\* required string of at least one character; the issues of a ZodError.
chatMessageSchemaParse(body) ==
    IF body.message = Undefined
    THEN [ ok |-> FALSE,
           errors |-> << [ path |-> "message", message |-> "message is required" ] >> ]
    ELSE IF Len(body.message[1]) < 1
    THEN [ ok |-> FALSE,
           errors |-> << [ path |-> "message", message |-> "Message is required" ] >> ]
    ELSE [ ok |-> TRUE, errors |-> << >> ]

\* Lines 43-51: the answer to a ZodError.
ValidationErrorResponse(errors) ==
    [ status |-> 400,
      success |-> FALSE,
      error |-> errors[1].path \o ": " \o errors[1].message,
      details |-> [ i \in 1..Len(errors) |-> errors[i].path \o ": " \o errors[i].message ] ]

NoPost == [ body |-> NoBody, response |-> Undefined ]

\* Lines 25-51: the handler of POST /message up to its await: the body is
\* parsed; a ZodError is answered with 400, else processMessage is called
\* with the validated request.
PostMessage(t, body) ==
    LET parsed == chatMessageSchemaParse(body)
    IN  IF parsed.ok
        THEN /\ processMessage(t, [ user_id |-> body.user_id[1],
                                    message |-> body.message[1] ])
             /\ post' = [ body |-> body, response |-> Undefined ]
        ELSE /\ post' = [ body |-> body,
                          response |-> Some(ValidationErrorResponse(parsed.errors)) ]
             /\ UNCHANGED <<conversations, now, calls, lastClear, nClears,
                            evalA, evalB, search, lastRead, chat>>

---------------------------------------------------------------------------
(* ChatService.clearConversation behind DELETE /conversation/:id.          *)

\* Mutant of clearConversation: the history is emptied, the key is kept.
clearConversationEmpty(store, conversationId) ==
    [ store |-> [ k \in DOMAIN store \cup {conversationId} |->
                    IF k = conversationId THEN <<>> ELSE store[k] ],
      result |-> TRUE ]

\* this.conversations.delete(conversationId); return true
clearConversation(store, conversationId) ==
    [ store |-> [ k \in DOMAIN store \ {conversationId} |-> store[k] ],
      result |-> TRUE ]

\* Ids a client may ask to clear.
ClearableIds == {"conv_never_created"} \cup DOMAIN conversations

\* The route handler: 200 when the service answers true, else 404.
Clear(conversationId) ==
    /\ nClears < MaxClears
    /\ LET r == clearConversation(conversations, conversationId)
       IN  /\ conversations' = r.store
           /\ lastClear' = Some(
                  [ id |-> conversationId,
                    existed |-> conversationId \in DOMAIN conversations,
                    result |-> r.result,
                    status |-> IF r.result THEN 200 ELSE 404 ])
    /\ nClears' = nClears + 1
    /\ calls' = Overlap(calls, "")
    /\ UNCHANGED <<now, evalA, evalB, search, lastRead, post, chat>>

---------------------------------------------------------------------------
(* determinePriority on its own: two evaluations on inputs drawn from the  *)
(* whole category enumeration.                                             *)

PriorityCategories ==
    {"billing", "refund", "complaint", "technical", "shipping", "returns",
     "general", "escalation", "other"}

EvalInputs ==
    [ classification : [ category : PriorityCategories,
                         confidence : {30, 90},
                         intent : {"account_help", "unclear"} ],
      requiresEscalation : BOOLEAN,
      evaluated : {FALSE},
      priority : {""} ]

NoEval ==
    [ classification |-> [category |-> "", confidence |-> 0, intent |-> ""],
      requiresEscalation |-> FALSE, evaluated |-> FALSE, priority |-> "" ]

Evaluate(e) ==
    [ e EXCEPT !.evaluated = TRUE,
               !.priority = determinePriority(e.classification, e.requiresEscalation) ]

EvaluateA ==
    /\ ~evalA.evaluated
    /\ evalA' = Evaluate(evalA)
    /\ UNCHANGED <<conversations, now, calls, lastClear, nClears, evalB, search, lastRead, post, chat>>

EvaluateB ==
    /\ ~evalB.evaluated
    /\ evalB' = Evaluate(evalB)
    /\ UNCHANGED <<conversations, now, calls, lastClear, nClears, evalA, search, lastRead, post, chat>>

---------------------------------------------------------------------------
(* The store on its own: saveMessage and clearConversation are public      *)
(* methods, called here directly on three conversation ids.                *)

StoreIds == {"conv_a", "conv_b", "conv_c"}

\* ChatMessage values handed to saveMessage.
StoreMessages ==
    { [ id |-> "msg_0_user", content |-> "How do I reset my password?",
        role |-> "user", timestamp |-> 0, metadata |-> Undefined, req |-> "" ],
      [ id |-> "msg_0_assistant", content |-> "Hello! How can I help you today?",
        role |-> "assistant", timestamp |-> 0,
        metadata |-> Some([ confidence |-> 40, sources |-> <<>>,
                            category |-> "general", priority |-> "low" ]),
        req |-> "" ],
      [ id |-> "msg_0_assistant", content |-> "I may need more information to help you properly.",
        role |-> "assistant", timestamp |-> 0,
        metadata |-> Some([ confidence |-> 60, sources |-> <<>>,
                            category |-> "escalation", priority |-> "high" ]),
        req |-> "" ] }

\* What the last read of the store returned; a write forgets it.
ZeroStats ==
    [ total_conversations |-> 0, total_messages |-> 0,
      average_messages_per_conversation |-> 0, escalation_rate |-> 0 ]

NoRead ==
    [ op |-> "", conversationId |-> "", userId |-> "",
      history |-> << >>, conversationIds |-> {}, stats |-> ZeroStats ]

StoreSave(conversationId, message) ==
    /\ Len(getConversationHistory(conversationId)) < MaxHistory
    /\ conversations' = saveMessage(conversations, conversationId, message)
    /\ lastRead' = NoRead
    /\ UNCHANGED <<now, calls, lastClear, nClears, evalA, evalB, search, post, chat>>

StoreClear(conversationId) ==
    /\ conversations' = clearConversation(conversations, conversationId).store
    /\ lastRead' = NoRead
    /\ UNCHANGED <<now, calls, lastClear, nClears, evalA, evalB, search, post, chat>>

---------------------------------------------------------------------------
(* KnowledgeBaseService: searchKnowledgeBase (executeQuery path) and       *)
(* searchKnowledgeBaseWithSDK (client.SQL.runQuery path).  A request to    *)
(* the engine is the SQL text taken apart: its table, its WHERE conditions *)
(* (joined by AND, in the order they are written), ORDER BY and LIMIT.     *)

\* Rows in one reply of the engine: at most MaxHits.
MaxHits == 1

Queries == { "billing issue", "what's new" }

\* query.replace(/'/g, "''")
EscapeQuotes(query) ==
    IF query = "what's new" THEN "what''s new" ELSE query

\* SearchFilters a caller passes: every key is optional; '' and 0 are
\* values the GET /search route lets through.
SearchFilterSets ==
    [ category : { Undefined, Some(""), Some("billing") },
      priority : { Undefined, Some("high") },
      product_type : { Undefined, Some("web_app") },
      limit : { Undefined, Some(5) },
      relevance_threshold : { Undefined, Some(0), Some(80) } ]

\* filters = {}
NoFilters ==
    [ category |-> Undefined, priority |-> Undefined, product_type |-> Undefined,
      limit |-> Undefined, relevance_threshold |-> Undefined ]

\* A destructuring default: `key = d` takes d when the key is undefined.
Default(opt, d) == IF opt = Undefined THEN d ELSE opt[1]

\* if (value) { sql += ` AND column = '${value}'` }
AndEquals(column, opt) ==
    IF Truthy(opt)
    THEN << [column |-> column, op |-> "=", value |-> opt[1]] >>
    ELSE << >>

\* Mutant of SearchRequest: the priority filter is not applied.
SearchRequestNoPriority(query, filters) ==
    [ path |-> "executeQuery",
      from |-> "support_knowledge_base",
      where |-> << [column |-> "content", op |-> "=", value |-> query],
                   [column |-> "relevance", op |-> ">=",
                    value |-> ToString(Default(filters.relevance_threshold, 70))] >>
                \o AndEquals("category", filters.category)
                \o AndEquals("product_type", filters.product_type),
      orderBy |-> "relevance DESC",
      limit |-> Default(filters.limit, 10) ]

\* The SQL of searchKnowledgeBase, lines 21-47.
SearchRequest(query, filters) ==
    [ path |-> "executeQuery",
      from |-> "support_knowledge_base",
      where |-> << [column |-> "content", op |-> "=", value |-> query],
                   [column |-> "relevance", op |-> ">=",
                    value |-> ToString(Default(filters.relevance_threshold, 70))] >>
                \o AndEquals("category", filters.category)
                \o AndEquals("priority", filters.priority)
                \o AndEquals("product_type", filters.product_type),
      orderBy |-> "relevance DESC",
      limit |-> Default(filters.limit, 10) ]

\* The SQL of searchKnowledgeBaseWithSDK, lines 417-449: the relevance
\* condition is written only for a truthy threshold.
SDKSearchRequest(query, filters) ==
    LET relevance_threshold == Default(filters.relevance_threshold, 70)
    IN  [ path |-> "runQuery",
          from |-> "support_kb",
          where |-> << [column |-> "content", op |-> "=", value |-> EscapeQuotes(query)] >>
                    \o ( IF relevance_threshold # 0
                         THEN << [column |-> "relevance", op |-> ">=",
                                  value |-> ToString(relevance_threshold)] >>
                         ELSE << >> )
                    \o AndEquals("JSON_EXTRACT(metadata, '$.category')", filters.category)
                    \o AndEquals("JSON_EXTRACT(metadata, '$.priority')", filters.priority)
                    \o AndEquals("JSON_EXTRACT(metadata, '$.product_type')",
                                 filters.product_type),
          orderBy |-> "relevance DESC",
          limit |-> Default(filters.limit, 10) ]

\* Structured metadata: every field is optional.
EmptyMetadata ==
    [ title |-> Undefined, content |-> Undefined, category |-> Undefined,
      priority |-> Undefined, tags |-> Undefined ]

FullMetadata ==
    [ title |-> Some("Password Reset Guide"),
      content |-> Some("To reset your password, go to the login page and click Forgot Password."),
      category |-> Some("technical"),
      priority |-> Some("high"),
      tags |-> Some(<<"password", "reset">>) ]

TitleOnlyMetadata == [ EmptyMetadata EXCEPT !.title = Some("Refund policy") ]

FullMetadataText ==
    "{\"title\":\"Password Reset Guide\",\"content\":\"To reset your password, go to the login page and click Forgot Password.\",\"category\":\"technical\",\"priority\":\"high\",\"tags\":[\"password\",\"reset\"]}"

\* JSON.parse on the texts the engine's rows carry: the value, or the
\* SyntaxError it throws.
JSONparse(text) ==
    CASE text = "{}" ->
            [ ok |-> TRUE, value |-> EmptyMetadata, error |-> "" ]
      [] text = "{\"title\":\"Refund policy\"}" ->
            [ ok |-> TRUE, value |-> TitleOnlyMetadata, error |-> "" ]
      [] text = FullMetadataText ->
            [ ok |-> TRUE, value |-> FullMetadata, error |-> "" ]
      [] OTHER ->
            [ ok |-> FALSE, value |-> EmptyMetadata,
              error |-> "Unexpected token in JSON" ]

\* The metadata column of a row: a string or an already parsed object.
MetadataString(text) == [ type |-> "string", text |-> text, object |-> EmptyMetadata ]

MetadataObject(object) == [ type |-> "object", text |-> "", object |-> object ]

\* Rows the engine can answer with: metadata as a JSON text (complete, with
\* a title only, empty), absent, not a JSON text, or an object.
RawHits ==
    { [ id |-> "kb_1", chunk_content |-> "To reset your password, go to the login page and click Forgot Password.",
        metadata |-> Some(MetadataString(FullMetadataText)), relevance |-> 95 ],
      [ id |-> "kb_2", chunk_content |-> "Refunds are issued within 5 days.",
        metadata |-> Some(MetadataString("{\"title\":\"Refund policy\"}")), relevance |-> 88 ],
      [ id |-> "kb_3", chunk_content |-> "Welcome! To get started, complete your profile.",
        metadata |-> Some(MetadataString("{}")), relevance |-> 80 ],
      [ id |-> "kb_4", chunk_content |-> "Billing details are under Account Settings.",
        metadata |-> Undefined, relevance |-> 75 ],
      [ id |-> "kb_5", chunk_content |-> "Shipping takes 3 days.",
        metadata |-> Some(MetadataString("category=shipping")), relevance |-> 72 ],
      [ id |-> "kb_6", chunk_content |-> "To reset your password, go to the login page and click Forgot Password.",
        metadata |-> Some(MetadataObject(FullMetadata)), relevance |-> 90 ] }

RECURSIVE SeqsUpTo(_, _)
SeqsUpTo(S, n) ==
    IF n = 0 THEN { << >> }
    ELSE LET shorter == SeqsUpTo(S, n - 1)
         IN  shorter \cup { Append(q, x) : q \in shorter, x \in S }

\* results.rows of client.SQL.runQuery
RowLists == SeqsUpTo(RawHits, MaxHits)

\* result.rows of executeQuery: the metadata column comes as text.
TextRowLists ==
    SeqsUpTo({ row \in RawHits :
                 row.metadata = Undefined \/ row.metadata[1].type = "string" },
             MaxHits)

\* What the engine's client rejects with.
EngineFailures == { "Connection lost" }

\* value || fallback, for strings
OrString(opt, fallback) == IF Truthy(opt) THEN opt[1] ELSE fallback

\* value || fallback, for arrays (an empty array is truthy)
OrList(opt, fallback) == IF opt # Undefined THEN opt[1] ELSE fallback

\* Lines 51-66, one row of searchKnowledgeBase:
\* JSON.parse(row.metadata || '{}'), then the entry.
NormalizeRow(row) ==
    LET text == IF row.metadata = Undefined THEN "{}"
                ELSE IF row.metadata[1].text = "" THEN "{}"
                ELSE row.metadata[1].text
        parsed == JSONparse(text)
        metadata == parsed.value
    IN  [ ok |-> parsed.ok,
          error |-> parsed.error,
          entry |-> [ id |-> row.id,
                      title |-> OrString(metadata.title, ""),
                      content |-> OrString(metadata.content, row.chunk_content),
                      category |-> OrString(metadata.category, "general"),
                      priority |-> OrString(metadata.priority, "medium"),
                      tags |-> OrList(metadata.tags, << >>),
                      chunk_content |-> row.chunk_content,
                      relevance |-> row.relevance ] ]

\* chunk_content.substring(0, 50)
Substring50(chunk) ==
    IF Len(chunk) <= 50 THEN chunk ELSE SubSeq(chunk, 1, 50)

\* Lines 457-475, one row of searchKnowledgeBaseWithSDK: a string is
\* parsed, an object is taken as it is, nothing becomes {}.
NormalizeResult(result) ==
    LET parsed ==
            IF result.metadata = Undefined
            THEN [ ok |-> TRUE, value |-> EmptyMetadata, error |-> "" ]
            ELSE IF result.metadata[1].type = "string"
            THEN JSONparse(result.metadata[1].text)
            ELSE [ ok |-> TRUE, value |-> result.metadata[1].object, error |-> "" ]
        metadata == parsed.value
    IN  [ ok |-> parsed.ok,
          error |-> parsed.error,
          entry |-> [ id |-> result.id,
                      title |-> OrString(metadata.title,
                                         Substring50(result.chunk_content) \o "..."),
                      content |-> IF result.chunk_content # ""
                                  THEN result.chunk_content
                                  ELSE OrString(metadata.content, ""),
                      category |-> OrString(metadata.category, "general"),
                      priority |-> OrString(metadata.priority, "medium"),
                      tags |-> OrList(metadata.tags, << >>),
                      chunk_content |-> result.chunk_content,
                      relevance |-> result.relevance ] ]

\* rows.map(...), given what the callback does on each row: the entries, or
\* what the first throwing row throws.
MapRows(normalized) ==
    LET bad == { i \in 1..Len(normalized) : ~normalized[i].ok }
    IN  IF bad = {}
        THEN [ kind |-> "entries",
               entries |-> [ i \in 1..Len(normalized) |-> normalized[i].entry ],
               message |-> "" ]
        ELSE [ kind |-> "throw",
               entries |-> << >>,
               message |-> normalized[CHOOSE i \in bad : \A j \in bad : i <= j].error ]

\* A search call before it is made.
NoSearch ==
    [ pc |-> "idle", method |-> "", query |-> "", filters |-> NoFilters,
      sent |-> << >>,      \* the requests handed to the engine, in order
      replies |-> << >>,   \* what the engine answered to each
      outcome |-> Undefined ]

SearchCalls ==
    { [ NoSearch EXCEPT !.pc = "called", !.method = method,
                        !.query = query, !.filters = filters ] :
        method \in {"searchKnowledgeBase", "searchKnowledgeBaseWithSDK"},
        query \in Queries,
        filters \in SearchFilterSets }

Rows(rows) == [ kind |-> "rows", rows |-> rows, message |-> "" ]

Rejected(message) == [ kind |-> "error", rows |-> << >>, message |-> message ]

Entries(entries) == Some([ kind |-> "entries", entries |-> entries, message |-> "" ])

Thrown(message) == Some([ kind |-> "error", entries |-> << >>, message |-> message ])

\* searchKnowledgeBase up to its await: lines 20-49 build the SQL and call
\* executeQuery.
CallSearchKnowledgeBase(s) ==
    [ s EXCEPT !.pc = "awaitExecuteQuery",
               !.sent = Append(@, SearchRequest(s.query, s.filters)) ]

SearchFrame == <<conversations, now, calls, lastClear, nClears, evalA, evalB, lastRead, post, chat>>

\* A caller calls searchKnowledgeBase.
SearchKnowledgeBase ==
    /\ search.pc = "called"
    /\ search.method = "searchKnowledgeBase"
    /\ search' = CallSearchKnowledgeBase(search)
    /\ UNCHANGED SearchFrame

\* A caller calls searchKnowledgeBaseWithSDK: await getMindsDBClient().
SearchKnowledgeBaseWithSDK ==
    /\ search.pc = "called"
    /\ search.method = "searchKnowledgeBaseWithSDK"
    /\ search' = [ search EXCEPT !.pc = "awaitClient" ]
    /\ UNCHANGED SearchFrame

\* Lines 410-454: getMindsDBClient answers null (mock mode, or the
\* connection failed) or the client; without a client searchKnowledgeBase
\* is called, with one the SQL is built and handed to client.SQL.runQuery.
ClientReturn ==
    /\ search.pc = "awaitClient"
    /\ \E client \in {"null", "MindsDB"} :
        search' =
            IF client = "null"
            THEN CallSearchKnowledgeBase(search)
            ELSE [ search EXCEPT
                     !.pc = "awaitRunQuery",
                     !.sent = Append(@, SDKSearchRequest(search.query, search.filters)) ]
    /\ UNCHANGED SearchFrame

\* Lines 454-481: the rows arrive and are mapped; a row that throws lands
\* in the catch, which calls searchKnowledgeBase.
RunQueryReturn ==
    /\ search.pc = "awaitRunQuery"
    /\ \E rows \in RowLists :
        LET mapped == MapRows([ i \in 1..Len(rows) |-> NormalizeResult(rows[i]) ])
            replied == [ search EXCEPT !.replies = Append(@, Rows(rows)) ]
        IN  search' =
                IF mapped.kind = "entries"
                THEN [ replied EXCEPT !.pc = "done",
                                      !.outcome = Entries(mapped.entries) ]
                ELSE CallSearchKnowledgeBase(replied)
    /\ UNCHANGED SearchFrame

\* Mutant of RunQueryFails: the catch rethrows in place of falling back.
RunQueryFailsNoFallback ==
    /\ search.pc = "awaitRunQuery"
    /\ \E cause \in EngineFailures :
        search' = [ search EXCEPT
                      !.replies = Append(@, Rejected(cause)),
                      !.pc = "done",
                      !.outcome = Thrown("Failed to search knowledge base: " \o cause) ]
    /\ UNCHANGED SearchFrame

\* Lines 477-481: client.SQL.runQuery rejects; the catch calls
\* searchKnowledgeBase.
RunQueryFails ==
    /\ search.pc = "awaitRunQuery"
    /\ \E cause \in EngineFailures :
        search' = CallSearchKnowledgeBase(
                      [ search EXCEPT !.replies = Append(@, Rejected(cause)) ])
    /\ UNCHANGED SearchFrame

\* Lines 49-69: the rows of executeQuery arrive and are mapped; a row that
\* throws lands in the catch, which throws the retrieval failure.
ExecuteQueryReturn ==
    /\ search.pc = "awaitExecuteQuery"
    /\ \E rows \in TextRowLists :
        LET mapped == MapRows([ i \in 1..Len(rows) |-> NormalizeRow(rows[i]) ])
        IN  search' = [ search EXCEPT
                !.replies = Append(@, Rows(rows)),
                !.pc = "done",
                !.outcome =
                    IF mapped.kind = "entries"
                    THEN Entries(mapped.entries)
                    ELSE Thrown("Failed to search knowledge base: " \o mapped.message) ]
    /\ UNCHANGED SearchFrame

\* executeQuery rejects with `Query failed: ${cause}` (database.ts); the
\* catch of lines 67-69 throws the retrieval failure.
ExecuteQueryFails ==
    /\ search.pc = "awaitExecuteQuery"
    /\ \E cause \in EngineFailures :
        search' = [ search EXCEPT
            !.replies = Append(@, Rejected("Query failed: " \o cause)),
            !.pc = "done",
            !.outcome = Thrown("Failed to search knowledge base: Query failed: "
                               \o cause) ]
    /\ UNCHANGED SearchFrame

---------------------------------------------------------------------------
(* The read operations of ChatService, called directly on the store.       *)

\* Ids a client may ask the history of.
ReadableIds == StoreIds \cup {"conv_never_created"}

ReadFrame == <<now, calls, lastClear, nClears, evalA, evalB, search, post, chat>>

\* Mutant of ReadHistory: a missing conversation is created empty.
ReadHistoryCreating(conversationId) ==
    /\ lastRead' = [ NoRead EXCEPT !.op = "getConversationHistory",
                                   !.conversationId = conversationId,
                                   !.history = getConversationHistory(conversationId) ]
    /\ conversations' =
           [ k \in DOMAIN conversations \cup {conversationId} |->
               getConversationHistory(k) ]
    /\ UNCHANGED ReadFrame

\* getConversationHistory(conversationId), lines 112-119.
ReadHistory(conversationId) ==
    /\ lastRead' = [ NoRead EXCEPT !.op = "getConversationHistory",
                                   !.conversationId = conversationId,
                                   !.history = getConversationHistory(conversationId) ]
    /\ UNCHANGED conversations
    /\ UNCHANGED ReadFrame

\* getUserConversations(userId), lines 143-165.
ReadUserConversations(userId) ==
    /\ lastRead' = [ NoRead EXCEPT !.op = "getUserConversations",
                                   !.userId = userId,
                                   !.conversationIds = getUserConversations(userId) ]
    /\ UNCHANGED conversations
    /\ UNCHANGED ReadFrame

\* getStats(), lines 210-252.
ReadStats ==
    /\ lastRead' = [ NoRead EXCEPT !.op = "getStats", !.stats = getStats ]
    /\ UNCHANGED conversations
    /\ UNCHANGED ReadFrame

---------------------------------------------------------------------------
(* The useChat hook of the web client and ChatInput, which calls it.       *)

\* The number of requests the hook sends.
MaxSends == 2

\* What the user types, and what callers of sendMessage pass: blanks only,
\* a text between blanks.
Contents == { "  ", " Hi " }

RECURSIVE trimStart(_)
trimStart(text) ==
    IF Len(text) > 0 /\ SubSeq(text, 1, 1) = " "
    THEN trimStart(SubSeq(text, 2, Len(text)))
    ELSE text

RECURSIVE trimEnd(_)
trimEnd(text) ==
    IF Len(text) > 0 /\ SubSeq(text, Len(text), Len(text)) = " "
    THEN trimEnd(SubSeq(text, 1, Len(text) - 1))
    ELSE text

\* String.prototype.trim on texts whose white space is blanks.
trim(text) == trimEnd(trimStart(text))

\* messages.slice(-n)
SliceLast(list, n) ==
    IF Len(list) <= n THEN list ELSE SubSeq(list, Len(list) - n + 1, Len(list))

\* What chatAPI.sendMessage resolves with for a request: the backend's
\* ChatResponse, which keeps the conversation id it was given.
ChatResponses(request) ==
    { [ message |-> "To reset your password, click Forgot Password.",
        confidence |-> 90,
        sources |-> << "Password Reset Guide" >>,
        conversation_id |-> IF Truthy(request.conversation_id)
                            THEN request.conversation_id[1]
                            ELSE generateConversationId(0, "k3x9q2m1z"),
        metadata |-> [ category |-> "technical", priority |-> "medium" ] ] }

\* The message of the error chatAPI.sendMessage rejects with: the APIError
\* of handleResponse for the backend's 500.
ChatFailures == { "Internal server error" }

NoChat ==
    [ pc |-> "idle",
      messages |-> << >>,
      isLoading |-> FALSE,
      error |-> Undefined,
      conversationId |-> Undefined,
      isTyping |-> FALSE,
      \* what the pending sendMessage closed over
      content |-> "",
      closureConversationId |-> Undefined,
      \* the requests handed to chatAPI.sendMessage, in order
      sent |-> << >>,
      \* history variables: the list when the last accepted send was made,
      \* whether it was cleared since, the messages that send added, what
      \* its request settled with, the last content a call returned early on
      atSend |-> << >>,
      cleared |-> FALSE,
      added |-> << >>,
      settled |-> "",
      lastRefused |-> Undefined ]

\* Mutant of sendMessageReturnsEarly: isLoading is not looked at.
sendMessageReturnsEarlyWhenBlank(content, isLoading) == trim(content) = ""

\* Line 38: if (!content.trim() || isLoading) return null
sendMessageReturnsEarly(content, isLoading) == trim(content) = "" \/ isLoading

\* Lines 37-73: sendMessage up to its await.  The hook's state is rendered
\* before the next event, so the callback sees the current state.
SendMessage(content) ==
    IF sendMessageReturnsEarly(content, chat.isLoading)
    THEN /\ chat' = [ chat EXCEPT !.lastRefused = Some(content) ]
         /\ UNCHANGED <<conversations, now, calls, lastClear, nClears,
                        evalA, evalB, search, lastRead, post>>
    ELSE /\ Len(chat.sent) < MaxSends
         /\ \E timestamp \in DateNow :
              LET userMessage ==
                      [ id |-> MessageId(timestamp, "user"),
                        content |-> content,
                        role |-> "user",
                        timestamp |-> timestamp,
                        metadata |-> Undefined ]
                  request ==
                      [ message |-> content,
                        conversation_id |-> IF Truthy(chat.conversationId)
                                            THEN chat.conversationId
                                            ELSE Undefined,
                        previous_messages |-> SliceLast(chat.messages, 5) ]
              IN  /\ chat' = [ chat EXCEPT
                        !.pc = "awaitSendMessage",
                        !.isLoading = TRUE,
                        !.error = Undefined,
                        !.isTyping = TRUE,
                        !.messages = Append(@, userMessage),
                        !.content = content,
                        !.closureConversationId = chat.conversationId,
                        !.sent = Append(@, request),
                        !.atSend = chat.messages,
                        !.cleared = FALSE,
                        !.added = << userMessage >>,
                        !.settled = "" ]
                  /\ now' = timestamp
         /\ UNCHANGED <<conversations, calls, lastClear, nClears,
                        evalA, evalB, search, lastRead, post>>

\* ChatInput.handleSubmit with disabled = isLoading: a text that is not
\* blank is passed on trimmed when the input is enabled.
HandleSubmit(message) ==
    /\ trim(message) # ""
    /\ ~chat.isLoading
    /\ SendMessage(trim(message))

\* Lines 75-98 and 123-125: the request resolved.
SendMessageResolves ==
    /\ chat.pc = "awaitSendMessage"
    /\ \E response \in ChatResponses(chat.sent[Len(chat.sent)]),
          timestamp \in DateNow :
        LET assistantMessage ==
                [ id |-> MessageId(timestamp, "assistant"),
                  content |-> response.message,
                  role |-> "assistant",
                  timestamp |-> timestamp,
                  metadata |-> Some([ confidence |-> response.confidence,
                                      sources |-> Some(response.sources),
                                      category |-> response.metadata.category,
                                      priority |-> response.metadata.priority ]) ]
        IN  /\ chat' = [ chat EXCEPT
                  !.pc = "idle",
                  !.conversationId = IF ~Truthy(chat.closureConversationId)
                                     THEN Some(response.conversation_id)
                                     ELSE @,
                  !.messages = Append(@, assistantMessage),
                  !.isTyping = FALSE,
                  !.isLoading = FALSE,
                  !.added = Append(@, assistantMessage),
                  !.settled = response.message ]
            /\ now' = timestamp
    /\ UNCHANGED <<conversations, calls, lastClear, nClears,
                   evalA, evalB, search, lastRead, post>>

\* Lines 99-125: the request rejected with an Error that is no AbortError
\* (no request is given an abort signal).
SendMessageRejects ==
    /\ chat.pc = "awaitSendMessage"
    /\ \E errorMessage \in ChatFailures, timestamp \in DateNow :
        LET errorAssistantMessage ==
                [ id |-> MessageId(timestamp, "error"),
                  content |-> errorMessage,
                  role |-> "assistant",
                  timestamp |-> timestamp,
                  metadata |-> Some([ confidence |-> 0,
                                      sources |-> Undefined,
                                      category |-> "error",
                                      priority |-> "high" ]) ]
        IN  /\ chat' = [ chat EXCEPT
                  !.pc = "idle",
                  !.messages = Append(@, errorAssistantMessage),
                  !.error = Some(errorMessage),
                  !.isTyping = FALSE,
                  !.isLoading = FALSE,
                  !.added = Append(@, errorAssistantMessage),
                  !.settled = errorMessage ]
            /\ now' = timestamp
    /\ UNCHANGED <<conversations, calls, lastClear, nClears,
                   evalA, evalB, search, lastRead, post>>

\* Lines 127-132: clearConversation of the hook.
ResetChat ==
    /\ chat' = [ chat EXCEPT
                   !.messages = << >>,
                   !.conversationId = Undefined,
                   !.error = Undefined,
                   !.isTyping = FALSE,
                   !.cleared = TRUE ]
    /\ UNCHANGED <<conversations, now, calls, lastClear, nClears,
                   evalA, evalB, search, lastRead, post>>

---------------------------------------------------------------------------
(* Specifications.                                                         *)

InitStore ==
    /\ conversations = <<>>
    /\ now = 0
    /\ calls = [t \in Tasks |-> InitCall]
    /\ lastClear = Undefined
    /\ nClears = 0
    /\ lastRead = NoRead
    /\ post = NoPost
    /\ chat = NoChat

Init ==
    /\ InitStore
    /\ evalA = NoEval
    /\ evalB = NoEval
    /\ search = NoSearch

Next ==
    \/ \E t \in Tasks : Start(t)
    \/ \E t \in Tasks : ClassifyReturn(t)
    \/ \E t \in Tasks : SearchReturn(t)
    \/ \E t \in Tasks : GenerateReturn(t)
    \/ \E t \in Tasks : EscalateReturn(t)
    \/ \E t \in Tasks : SaveAssistant(t)
    \/ \E t \in Tasks : Return(t)
    \/ \E t \in Tasks : CollaboratorFails(t)
    \/ \E conversationId \in ClearableIds : Clear(conversationId)

Spec == Init /\ [][Next]_vars

InitPriority ==
    /\ InitStore
    /\ evalA \in EvalInputs
    /\ evalB \in EvalInputs
    /\ search = NoSearch

NextPriority == EvaluateA \/ EvaluateB

SpecPriority == InitPriority /\ [][NextPriority]_vars

NextStore ==
    \/ \E conversationId \in StoreIds, message \in StoreMessages :
           StoreSave(conversationId, message)
    \/ \E conversationId \in StoreIds : StoreClear(conversationId)
    \/ \E conversationId \in ReadableIds : ReadHistory(conversationId)
    \/ \E userId \in {"user_456"} : ReadUserConversations(userId)
    \/ ReadStats

SpecStore == Init /\ [][NextStore]_vars

\* One processMessage call whose saveMessage calls may take their catch.
NextFault ==
    \/ Start("t1")
    \/ ClassifyReturn("t1")
    \/ SearchReturn("t1")
    \/ GenerateReturn("t1")
    \/ \E tryThrows \in BOOLEAN : EscalateReturnThen("t1", tryThrows)
    \/ \E tryThrows \in BOOLEAN : SaveAssistantThen("t1", tryThrows)
    \/ Return("t1")
    \/ CollaboratorFails("t1")

SpecFault == Init /\ [][NextFault]_vars

\* processMessage is invoked for call b when it was invoked for call a.
StartAfter(a, b) == calls[a].pc # "idle" /\ Start(b)

\* Two processMessage calls, t1 invoked before t2, and no clear.
NextOrdered ==
    \/ Start("t1")
    \/ StartAfter("t1", "t2")
    \/ \E t \in Tasks : ClassifyReturn(t)
    \/ \E t \in Tasks : SearchReturn(t)
    \/ \E t \in Tasks : GenerateReturn(t)
    \/ \E t \in Tasks : EscalateReturn(t)
    \/ \E t \in Tasks : SaveAssistant(t)
    \/ \E t \in Tasks : Return(t)
    \/ \E t \in Tasks : CollaboratorFails(t)

SpecOrdered == Init /\ [][NextOrdered]_vars

\* One POST /message request at a time, each handled to its end.
NextPost ==
    \/ \E body \in PostBodies("t1") : PostMessage("t1", body)
    \/ ClassifyReturn("t1")
    \/ SearchReturn("t1")
    \/ GenerateReturn("t1")
    \/ EscalateReturn("t1")
    \/ SaveAssistant("t1")
    \/ Return("t1")
    \/ CollaboratorFails("t1")

SpecPost == Init /\ [][NextPost]_vars

\* The hook in one chat window.  A request handed to fetch settles.
NextChat ==
    \/ \E content \in Contents : SendMessage(content)
    \/ \E message \in Contents : HandleSubmit(message)
    \/ SendMessageResolves
    \/ SendMessageRejects
    \/ ResetChat

SpecChat ==
    Init /\ [][NextChat]_vars /\ WF_vars(SendMessageResolves \/ SendMessageRejects)

InitSearch ==
    /\ InitStore
    /\ evalA = NoEval
    /\ evalB = NoEval
    /\ search \in SearchCalls

NextSearch ==
    \/ SearchKnowledgeBase
    \/ SearchKnowledgeBaseWithSDK
    \/ ClientReturn
    \/ RunQueryReturn
    \/ RunQueryFails
    \/ ExecuteQueryReturn
    \/ ExecuteQueryFails

SpecSearch == InitSearch /\ [][NextSearch]_vars

---------------------------------------------------------------------------
(* Properties.                                                             *)

Abs(x) == IF x < 0 THEN -x ELSE x

Started == { t \in Tasks : calls[t].pc # "idle" }

\* Some conversation holds a message appended by call t.
HasMessageOf(t) ==
    \E k \in DOMAIN conversations :
        \E i \in 1..Len(conversations[k]) : conversations[k][i].req = t

\* h is previous followed by the user message and the assistant message of
\* the returned call c.
GrownByPair(h, previous, c) ==
    /\ Len(h) = Len(previous) + 2
    /\ SubSeq(h, 1, Len(previous)) = previous
    /\ h[Len(h) - 1].role = "user"
    /\ h[Len(h) - 1].content = c.request.message
    /\ h[Len(h)].role = "assistant"
    /\ h[Len(h)].content = c.response[1].message

\* C1: when a processMessage call has returned and no other call was made
\* since it was made, the history of the returned conversation_id is the
\* history it had at the call followed by one user message with the request
\* text and one assistant message with the response text.
C1_HistoryGrowsByPair ==
    \A t \in Tasks :
        (calls[t].pc = "returned" /\ calls[t].alone) =>
            GrownByPair(getConversationHistory(calls[t].response[1].conversation_id),
                        calls[t].histAtCall, calls[t])

\* A call returned alone on a conversation that already held a pair.
C1_Witness ==
    \E t \in Tasks :
        /\ calls[t].pc = "returned"
        /\ calls[t].alone
        /\ Len(calls[t].histAtCall) = 2
        /\ Len(getConversationHistory(calls[t].conversationId)) = 4

\* C2: every assistant message of every history is immediately preceded by
\* the user message of the same request.
C2_PairNeverSplit ==
    \A k \in DOMAIN conversations :
        \A i \in 1..Len(conversations[k]) :
            conversations[k][i].role = "assistant" =>
                /\ i > 1
                /\ conversations[k][i - 1].role = "user"
                /\ conversations[k][i - 1].req = conversations[k][i].req

\* C3: a call that failed in classification, retrieval, generation or the
\* escalation decision has no response, only an error, and has appended
\* nothing: no history holds a message of it, and when no other call was
\* made since, the history of its conversation id (generated or not) is the
\* one found at the call.
C3_FailureAppendsNothing ==
    \A t \in Tasks :
        calls[t].pc = "failed" =>
            /\ calls[t].response = Undefined
            /\ calls[t].error # Undefined
            /\ ~HasMessageOf(t)
            /\ calls[t].alone =>
                   getConversationHistory(calls[t].conversationId) = calls[t].histAtCall

\* The escalation decision of a call without conversation_id failed: the
\* generated id is in no history.
C3_Witness ==
    \E t \in Tasks :
        /\ calls[t].pc = "failed"
        /\ calls[t].alone
        /\ calls[t].request.conversation_id = Undefined
        /\ calls[t].error = Some("Failed to process message: Escalation check failed")
        /\ calls[t].conversationId \notin DOMAIN conversations

\* C4: clearConversation answers true exactly when the conversation existed,
\* and the route answers 404 for a conversation that did not exist.
C4_ClearReportsExistence ==
    lastClear # Undefined =>
        /\ lastClear[1].result = lastClear[1].existed
        /\ ~lastClear[1].existed => lastClear[1].status = 404

\* The step that clears an existing conversation X empties history(X),
\* removes X from the statistics' count and from the listing and leaves every
\* other history as it was.
C5_ClearStep ==
    \A X \in DOMAIN conversations :
        (nClears' = nClears + 1 /\ lastClear'[1].id = X) =>
            /\ getConversationHistory(X)' = <<>>
            /\ X \notin getUserConversations("user_456")'
            /\ getStats'.total_conversations = getStats.total_conversations - 1
            /\ \A Y \in DOMAIN conversations \ {X} :
                   getConversationHistory(Y)' = getConversationHistory(Y)

\* A call made for the cleared id after the clear, with no other call since,
\* returns with a history of length 2.
C5_LaterCall ==
    \A t \in Tasks :
        ( /\ calls[t].pc = "returned"
          /\ calls[t].alone
          /\ lastClear # Undefined
          /\ lastClear[1].existed
          /\ lastClear[1].id = calls[t].conversationId
          /\ calls[t].histAtCall = <<>> ) =>
            Len(getConversationHistory(calls[t].conversationId)) = 2

\* C5: a clear of an existing conversation X empties history(X), removes X
\* from the statistics' count and from the listing and leaves every other
\* history as it was; a call made later for X, on its own, returns with a
\* history of length 2.
C5_ClearRemovesConversation == [][C5_ClearStep /\ C5_LaterCall']_vars

\* X existed and was cleared, and a later call for X returned.
C5_Witness ==
    \E t \in Tasks :
        /\ calls[t].pc = "returned"
        /\ calls[t].alone
        /\ lastClear # Undefined
        /\ lastClear[1].existed
        /\ lastClear[1].id = calls[t].conversationId
        /\ Len(getConversationHistory(calls[t].conversationId)) = 2

\* C6 as claimed: every call whose request supplies a conversation_id works
\* on, and returns, the supplied value.
C6_SuppliedIdKept ==
    \A t \in Started :
        calls[t].request.conversation_id # Undefined =>
            /\ calls[t].conversationId = calls[t].request.conversation_id[1]
            /\ calls[t].response # Undefined =>
                   calls[t].response[1].conversation_id
                       = calls[t].request.conversation_id[1]

GeneratedIds ==
    { generateConversationId(timestamp, randomSuffix) :
        timestamp \in 0..MaxClock, randomSuffix \in RandomSuffixes }

\* C6 amended: a call whose request supplies a non-empty conversation_id
\* works on the supplied value; a call whose request has none, or the empty
\* string, works on a generated id; the response carries the id the call
\* works on, and the messages of the call are appended to that id's history
\* and to no other.
C6_ConversationIdResolved ==
    \A t \in Started :
        LET c == calls[t]
            supplied == c.request.conversation_id
        IN  /\ (supplied # Undefined /\ supplied[1] # "") =>
                   c.conversationId = supplied[1]
            /\ (supplied = Undefined \/ supplied = Some("")) =>
                   c.conversationId \in GeneratedIds
            /\ c.response # Undefined =>
                   c.response[1].conversation_id = c.conversationId
            /\ \A k \in DOMAIN conversations :
                   \A i \in 1..Len(conversations[k]) :
                       conversations[k][i].req = t => k = c.conversationId
            /\ (c.pc = "returned" /\ c.alone) =>
                   GrownByPair(getConversationHistory(c.conversationId), c.histAtCall, c)

\* A call without conversation_id got a generated id; a later call supplied
\* that id, and the history of the id holds the messages of both.
C6_Witness ==
    \E t \in Tasks, u \in Tasks :
        /\ calls[t].pc = "returned"
        /\ calls[u].pc = "returned"
        /\ calls[t].request.conversation_id = Undefined
        /\ calls[u].request.conversation_id = Some(calls[t].conversationId)
        /\ calls[u].alone
        /\ LET h == getConversationHistory(calls[t].conversationId)
           IN  /\ Len(h) = 4
               /\ h[1].req = t
               /\ h[4].req = u

\* The priority table of the specification, one row per category.
PriorityOfCategory ==
    [ category \in PriorityCategories |->
        CASE category = "billing"   -> "high"
          [] category = "refund"    -> "high"
          [] category = "complaint" -> "high"
          [] category = "technical" -> "medium"
          [] category = "shipping"  -> "medium"
          [] category = "returns"   -> "medium"
          [] OTHER                  -> "low" ]

Evaluated == { e \in {evalA, evalB} : e.evaluated }

\* C7: the priority is high when escalated, otherwise the category's row of
\* the table; it is one of low, medium, high.
C7_PriorityTable ==
    \A e \in Evaluated :
        /\ e.priority \in {"low", "medium", "high"}
        /\ e.priority = IF e.requiresEscalation THEN "high"
                        ELSE PriorityOfCategory[e.classification.category]

C7_Witness ==
    /\ evalA.evaluated
    /\ ~evalA.requiresEscalation
    /\ evalA.classification.category = "complaint"
    /\ evalA.priority = "high"
    /\ evalB.evaluated
    /\ ~evalB.requiresEscalation
    /\ evalB.classification.category = "returns"
    /\ evalB.priority = "medium"

\* C8: two evaluations with the same category and the same escalated flag
\* give the same priority, whatever the confidence and the intent are, and
\* an evaluation changes neither the store nor any call.
C8_PriorityDependsOnCategoryAndFlag ==
    /\ (/\ evalA.evaluated
        /\ evalB.evaluated
        /\ evalA.classification.category = evalB.classification.category
        /\ evalA.requiresEscalation = evalB.requiresEscalation)
           => evalA.priority = evalB.priority
    /\ conversations = <<>>
    /\ calls = [t \in Tasks |-> InitCall]

C8_Witness ==
    /\ evalA.evaluated
    /\ evalB.evaluated
    /\ evalA.classification.category = "general"
    /\ evalB.classification.category = "general"
    /\ evalA.classification.confidence = 30
    /\ evalB.classification.confidence = 90
    /\ evalA.classification.intent # evalB.classification.intent
    /\ ~evalA.requiresEscalation
    /\ ~evalB.requiresEscalation
    /\ evalA.priority = evalB.priority

\* The conversations holding an assistant message of a call whose
\* requires_escalation was true.
EscalatedConversations ==
    { k \in DOMAIN conversations :
        \E i \in 1..Len(conversations[k]) :
            /\ conversations[k][i].role = "assistant"
            /\ conversations[k][i].req \in Tasks
            /\ calls[conversations[k][i].req].requiresEscalation }

\* n / d to the nearest hundredth is r hundredths.
IsNearestHundredth(r, n, d) == 2 * Abs(r * d - 100 * n) <= d

\* C9: escalation_rate is the share of conversations holding an assistant
\* message of an escalated call, to 2 decimals, and 0 for an empty store.
C9_EscalationRate ==
    LET stats == getStats
    IN  IF stats.total_conversations = 0
        THEN stats.escalation_rate = 0
        ELSE IsNearestHundredth(stats.escalation_rate,
                                Cardinality(EscalatedConversations),
                                stats.total_conversations)

\* C10: average_messages_per_conversation is total_messages over
\* total_conversations to 2 decimals, and 0 for an empty store.
C10_AverageMessages ==
    LET stats == getStats
    IN  IF stats.total_conversations = 0
        THEN stats.average_messages_per_conversation = 0
        ELSE IsNearestHundredth(stats.average_messages_per_conversation,
                                stats.total_messages,
                                stats.total_conversations)

\* Three conversations holding five messages: 1.67.
C10_Witness ==
    /\ getStats.total_conversations = 3
    /\ getStats.total_messages = 5
    /\ getStats.average_messages_per_conversation = 167

\* Call t has a message with this role in some conversation.
HasMessageWithRole(t, role) ==
    \E k \in DOMAIN conversations :
        \E i \in 1..Len(conversations[k]) :
            conversations[k][i].req = t /\ conversations[k][i].role = role

\* C11: a processMessage call in which saveMessage failed to append the
\* user message or the assistant message does not return a response, and
\* once the call has ended the store holds no user message of it without
\* its assistant message.
C11_StoreFailureAborts ==
    \A t \in Tasks :
        /\ calls[t].pc = "returned" =>
               \A i \in 1..Len(calls[t].saveResults) : calls[t].saveResults[i]
        /\ calls[t].pc \in {"returned", "failed"} =>
               (HasMessageWithRole(t, "user") => HasMessageWithRole(t, "assistant"))

\* A processMessage call fails in this step.
C12_Fails(t) == calls[t].pc # "failed" /\ calls'[t].pc = "failed"

\* C12: whichever await a processMessage call fails at, the caller gets one
\* error, 'Failed to process message: ' followed by the message of the cause
\* thrown at that await, and no response; the error of a failed call never
\* changes afterwards; POST /message answers it with status 500,
\* success = false and error 'Internal server error'.
C12_FailureWrapped ==
    [][ \A t \in Tasks :
          /\ C12_Fails(t) =>
                /\ calls'[t].error =
                       Some("Failed to process message: " \o FailureCause(calls[t].pc))
                /\ calls'[t].response = Undefined
                /\ PostMessageResponse(calls'[t]).status = 500
                /\ PostMessageResponse(calls'[t]).success = FALSE
                /\ PostMessageResponse(calls'[t]).error = Some("Internal server error")
          /\ calls[t].pc = "failed" =>
                (calls'[t].pc = "failed" /\ calls'[t].error = calls[t].error) ]_vars

\* A call failed at the generator while the other one failed at the
\* retriever.
C12_Witness ==
    /\ calls["t1"].pc = "failed"
    /\ calls["t1"].error = Some("Failed to process message: Generation failed")
    /\ calls["t2"].pc = "failed"
    /\ calls["t2"].error =
           Some("Failed to process message: Failed to search knowledge base")
    /\ PostMessageResponse(calls["t1"]).status = 500

StartsWith(text, prefix) ==
    Len(text) >= Len(prefix) /\ SubSeq(text, 1, Len(prefix)) = prefix

\* The search call has ended after the engine answered n times.
SearchDone(n) == search.pc = "done" /\ Len(search.replies) = n

MetadataOf(row) ==
    IF row.metadata = Undefined THEN EmptyMetadata
    ELSE IF row.metadata[1].type = "object" THEN row.metadata[1].object
    ELSE JSONparse(row.metadata[1].text).value

\* entry is row normalised, the missing fields defaulted.
NormalizedWithDefaults(entry, row) ==
    LET metadata == MetadataOf(row)
    IN  /\ entry.id = row.id
        /\ entry.category =
               IF metadata.category = Undefined THEN "general" ELSE metadata.category[1]
        /\ entry.priority =
               IF metadata.priority = Undefined THEN "medium" ELSE metadata.priority[1]
        /\ entry.tags = IF metadata.tags = Undefined THEN << >> ELSE metadata.tags[1]

\* C14: whatever the metadata of the rows the engine answers with, the
\* search call ends with that answer and returns one normalised entry per
\* row, category defaulted to general, priority to medium, tags to the
\* empty list.
C14_MetadataFailsSoft ==
    \A i \in 1..Len(search.replies) :
        (search.replies[i].kind = "rows" /\ (i < Len(search.replies) \/ search.pc = "done")) =>
            /\ i = Len(search.replies)
            /\ search.outcome[1].kind = "entries"
            /\ Len(search.outcome[1].entries) = Len(search.replies[i].rows)
            /\ \A j \in 1..Len(search.replies[i].rows) :
                   NormalizedWithDefaults(search.outcome[1].entries[j],
                                          search.replies[i].rows[j])

FilterFields == {"category", "priority", "product_type"}

FilterValue(filters, field) ==
    CASE field = "category" -> filters.category
      [] field = "priority" -> filters.priority
      [] field = "product_type" -> filters.product_type

\* The positions of the equality conditions of a request on a field.
EqualityOn(request, field) ==
    { i \in 1..Len(request.where) :
        /\ request.where[i].op = "="
        /\ request.where[i].column \in
               { field, "JSON_EXTRACT(metadata, '$." \o field \o "')" } }

\* The positions of the lower bounds of a request on relevance.
RelevanceBound(request) ==
    { i \in 1..Len(request.where) :
        request.where[i].column = "relevance" /\ request.where[i].op = ">=" }

\* Original statement of C18: every request sent to the engine has an
\* equality condition on category, priority and product_type for exactly
\* those present in the filters, the condition relevance >= threshold
\* (0.7 when not supplied), descending relevance order and the limit
\* (10 when not supplied).
C18_PresentFiltersApplied ==
    \A n \in 1..Len(search.sent) :
        LET request == search.sent[n]
            threshold == IF search.filters.relevance_threshold = Undefined THEN 70
                         ELSE search.filters.relevance_threshold[1]
        IN  /\ \A field \in FilterFields :
                   LET value == FilterValue(search.filters, field)
                   IN  IF value # Undefined
                       THEN \E i \in EqualityOn(request, field) :
                                request.where[i].value = value[1]
                       ELSE EqualityOn(request, field) = {}
            /\ \E i \in RelevanceBound(request) :
                   request.where[i].value = ToString(threshold)
            /\ request.orderBy = "relevance DESC"
            /\ request.limit = IF search.filters.limit = Undefined THEN 10
                               ELSE search.filters.limit[1]

\* C18: every request sent to the engine has one equality condition on
\* each of category, priority and product_type that is supplied and not
\* the empty string, and none on the others; the condition relevance >=
\* threshold (0.7 when not supplied), which the runQuery request leaves out
\* when the threshold is 0; no other condition but the one on content;
\* descending relevance order; the limit (10 when not supplied).
C18_NonEmptyFiltersApplied ==
    \A n \in 1..Len(search.sent) :
        LET request == search.sent[n]
            threshold == IF search.filters.relevance_threshold = Undefined THEN 70
                         ELSE search.filters.relevance_threshold[1]
            applied == { field \in FilterFields :
                           LET value == FilterValue(search.filters, field)
                           IN  value # Undefined /\ value[1] # "" }
            bounded == request.path = "executeQuery" \/ threshold # 0
        IN  /\ \A field \in FilterFields :
                   IF field \in applied
                   THEN /\ Cardinality(EqualityOn(request, field)) = 1
                        /\ \A i \in EqualityOn(request, field) :
                               request.where[i].value =
                                   FilterValue(search.filters, field)[1]
                   ELSE EqualityOn(request, field) = {}
            /\ IF bounded
               THEN /\ Cardinality(RelevanceBound(request)) = 1
                    /\ \A i \in RelevanceBound(request) :
                           request.where[i].value = ToString(threshold)
               ELSE RelevanceBound(request) = {}
            /\ Len(request.where) =
                   1 + Cardinality(applied) + (IF bounded THEN 1 ELSE 0)
            /\ request.orderBy = "relevance DESC"
            /\ request.limit = IF search.filters.limit = Undefined THEN 10
                               ELSE search.filters.limit[1]

\* Both requests of a call with an empty category, a priority, a
\* product_type and a limit were sent.
C18_Witness ==
    /\ Len(search.sent) = 2
    /\ search.filters.category = Some("")
    /\ search.filters.priority = Some("high")
    /\ search.filters.product_type = Some("web_app")
    /\ search.filters.limit = Some(5)
    /\ search.filters.relevance_threshold = Undefined

\* The calls whose response has been assembled.
Responded == { t \in Tasks : calls[t].response # Undefined }

\* C15: when the generator reported requires_escalation = true, the
\* response has requires_escalation = true, metadata.priority = high and a
\* non-empty suggested_actions list, and no sources when the retriever
\* returned no entries.
C15_GeneratorEscalates ==
    \A t \in Responded :
        calls[t].generationResult.requires_escalation =>
            LET response == calls[t].response[1]
            IN  /\ response.requires_escalation
                /\ response.metadata.priority = "high"
                /\ response.suggested_actions # << >>
                /\ calls[t].knowledgeBaseResults = << >> => response.sources = << >>

\* Two escalated calls returned: a technical one with sources, a billing
\* one without.
C15_Witness ==
    /\ calls["t1"].pc = "returned"
    /\ calls["t1"].generationResult.requires_escalation
    /\ calls["t1"].classification.category = "technical"
    /\ calls["t1"].response[1].sources # << >>
    /\ calls["t2"].pc = "returned"
    /\ calls["t2"].generationResult.requires_escalation
    /\ calls["t2"].classification.category = "billing"
    /\ calls["t2"].response[1].sources = << >>

\* C16: the response of a call that returned carries the generator's
\* confidence unchanged (within 0..100 when the generator's is), the
\* generator's text as message and the classifier's category as
\* metadata.category.
C16_ResponseCarriesGeneration ==
    \A t \in Tasks :
        calls[t].pc = "returned" =>
            LET response == calls[t].response[1]
            IN  /\ response.confidence = calls[t].generationResult.confidence
                /\ calls[t].generationResult.confidence \in 0..100 =>
                       response.confidence \in 0..100
                /\ response.message = calls[t].generationResult.response
                /\ response.metadata.category = calls[t].classification.category

\* A call returned the generator's 95 for a query classified with 90.
C16_Witness ==
    \E t \in Tasks :
        /\ calls[t].pc = "returned"
        /\ calls[t].classification = [category |-> "technical", confidence |-> 90]
        /\ calls[t].generationResult = Answer
        /\ calls[t].response[1].confidence = 95

\* The awaits of a call after it invoked the retriever.
AfterSearchCall ==
    {"awaitSearch", "awaitGenerate", "awaitEscalate", "awaitSaveUser",
     "awaitSaveAssistant", "returned"}

\* C17: a call that got its classification invoked the retriever with the
\* request's message as query and with filters limit = 5,
\* relevance_threshold = 0.7, category = the classification's category
\* unless that is 'general', then no category; priority and product_type
\* are not set.
C17_RetrieverInvocation ==
    \A t \in Tasks :
        calls[t].pc \in AfterSearchCall =>
            /\ calls[t].searchQuery = Some(calls[t].request.message)
            /\ calls[t].searchFilters # Undefined
            /\ LET filters == calls[t].searchFilters[1]
                   category == calls[t].classification.category
               IN  /\ filters.limit = Some(5)
                   /\ filters.relevance_threshold = Some(70)
                   /\ filters.category =
                          IF category = "general" THEN Undefined ELSE Some(category)
                   /\ filters.priority = Undefined
                   /\ filters.product_type = Undefined

\* One call searched without a category filter, the other with billing.
C17_Witness ==
    /\ calls["t1"].pc \in AfterSearchCall
    /\ calls["t1"].classification.category = "general"
    /\ calls["t1"].searchFilters[1].category = Undefined
    /\ calls["t2"].pc \in AfterSearchCall
    /\ calls["t2"].searchFilters[1].category = Some("billing")

\* A read operation was the last call on the store.
C19_ReadStep == lastRead'.op # ""

\* C19: a read never changes the store; the history of an id the store
\* does not hold is the empty list and the id is still not held afterwards;
\* on an empty store the history and the conversation list are empty and
\* the statistics are all zero.
C19_ReadsLeaveStore ==
    [][ C19_ReadStep =>
          /\ conversations' = conversations
          /\ lastRead'.op = "getConversationHistory" =>
                IF lastRead'.conversationId \in DOMAIN conversations
                THEN lastRead'.history = conversations[lastRead'.conversationId]
                ELSE /\ lastRead'.history = << >>
                     /\ lastRead'.conversationId \notin DOMAIN conversations'
          /\ DOMAIN conversations = {} =>
                /\ lastRead'.history = << >>
                /\ lastRead'.conversationIds = {}
                /\ lastRead'.stats = ZeroStats ]_vars

\* The history of an id that was never created was read from a store
\* holding other conversations.
C19_Witness ==
    /\ lastRead.op = "getConversationHistory"
    /\ lastRead.conversationId = "conv_never_created"
    /\ lastRead.history = << >>
    /\ DOMAIN conversations = {"conv_a", "conv_b"}

IsPrefix(s, t) == Len(s) <= Len(t) /\ SubSeq(t, 1, Len(s)) = s

\* This step is a clearConversation call for this id.
C20_ClearOf(conversationId) ==
    nClears' = nClears + 1 /\ lastClear'[1].id = conversationId

\* C20: in every step that is not a clear of its id a conversation stays in
\* the store and its history after the step has its history before the step
\* as a prefix; a conversation that was not in the store enters it with
\* exactly one message, the one appended.
C20_AppendOnly ==
    [][ /\ \A conversationId \in DOMAIN conversations :
              \/ C20_ClearOf(conversationId)
              \/ /\ conversationId \in DOMAIN conversations'
                 /\ IsPrefix(conversations[conversationId],
                             conversations'[conversationId])
        /\ \A conversationId \in DOMAIN conversations' \ DOMAIN conversations :
              Len(conversations'[conversationId]) = 1 ]_vars

\* Two calls appended to one conversation, and the clear of another id
\* left it alone.
C20_Witness ==
    /\ lastClear # Undefined
    /\ \E conversationId \in DOMAIN conversations :
          /\ Len(conversations[conversationId]) = 4
          /\ lastClear[1].id # conversationId

\* The positions <<id, index>> of the messages in the store.
StoredMessages ==
    UNION { { <<k, i>> : i \in 1..Len(conversations[k]) } : k \in DOMAIN conversations }

\* Call t takes a step of processMessage.
StepOf(t) == calls'[t].pc # calls[t].pc

\* C21: every message in the history of an id was appended by a call
\* addressed to that id, and a step of a call for id X leaves every other
\* id as it was: in the store or not, with the same history.
C21_OtherIdsUntouched ==
    [][ /\ \A p \in StoredMessages' :
              calls'[conversations'[p[1]][p[2]].req].conversationId = p[1]
        /\ \A t \in Tasks :
              StepOf(t) =>
                  \A k \in (DOMAIN conversations \cup DOMAIN conversations')
                              \ {calls'[t].conversationId} :
                      /\ k \in DOMAIN conversations
                      /\ k \in DOMAIN conversations'
                      /\ conversations'[k] = conversations[k] ]_vars

\* Two calls for different ids returned; each history holds the pair of
\* its own call.
C21_Witness ==
    /\ calls["t1"].pc = "returned"
    /\ calls["t2"].pc = "returned"
    /\ calls["t1"].conversationId # calls["t2"].conversationId
    /\ \A t \in Tasks :
          /\ Len(getConversationHistory(calls[t].conversationId)) = 2
          /\ getConversationHistory(calls[t].conversationId)[1].req = t
          /\ getConversationHistory(calls[t].conversationId)[2].req = t

\* C23: the messages held in the store have pairwise distinct ids.
C23_MessageIdsDistinct ==
    \A p, q \in StoredMessages :
        p # q => conversations[p[1]][p[2]].id # conversations[q[1]][q[2]].id

UserIds == { Sender(t).user_id : t \in Tasks }

\* C24: getUserConversations(userId) is the set of the ids of the
\* conversations holding a user message sent by userId.
C24_UserScoped ==
    \A userId \in UserIds :
        getUserConversations(userId) =
            { k \in DOMAIN conversations :
                \E i \in 1..Len(conversations[k]) :
                    /\ conversations[k][i].role = "user"
                    /\ Sender(conversations[k][i].req).user_id = userId }

\* C28: the metadata of the assistant message stored by a call that
\* returned has the response's confidence and category, the titles of the
\* response's sources in their order, and the response's priority, which is
\* high when the response requires escalation.
C28_StoredMetadataAgrees ==
    \A t \in Tasks :
        calls[t].pc = "returned" =>
            \A p \in StoredMessages :
                LET message == conversations[p[1]][p[2]]
                    response == calls[t].response[1]
                IN  (message.req = t /\ message.role = "assistant") =>
                        /\ message.metadata # Undefined
                        /\ message.metadata[1].confidence = response.confidence
                        /\ message.metadata[1].category = response.metadata.category
                        /\ Len(message.metadata[1].sources) = Len(response.sources)
                        /\ \A i \in 1..Len(response.sources) :
                               message.metadata[1].sources[i] = response.sources[i].title
                        /\ message.metadata[1].priority = response.metadata.priority
                        /\ response.requires_escalation =>
                               message.metadata[1].priority = "high"

\* A technical call that was escalated returned, and its assistant message
\* with two source titles is in the store.
C28_Witness ==
    \E t \in Tasks :
        /\ calls[t].pc = "returned"
        /\ calls[t].classification.category = "technical"
        /\ calls[t].response[1].requires_escalation
        /\ \E p \in StoredMessages :
              /\ conversations[p[1]][p[2]].req = t
              /\ conversations[p[1]][p[2]].role = "assistant"
              /\ Len(conversations[p[1]][p[2]].metadata[1].sources) = 2

ReturnedCalls == { t \in Tasks : calls[t].pc = "returned" }

\* C29: total_conversations is the number of ids in the store and
\* total_messages the number of messages held; when no clear was made and no
\* call is in flight, total_messages is twice the number of calls that
\* returned and total_conversations the number of distinct ids they
\* returned.
C29_StatsTotals ==
    /\ getStats.total_conversations = Cardinality(DOMAIN conversations)
    /\ getStats.total_messages = Cardinality(StoredMessages)
    /\ (nClears = 0 /\ \A t \in Tasks : calls[t].pc \notin InFlight) =>
          /\ getStats.total_messages = 2 * Cardinality(ReturnedCalls)
          /\ getStats.total_conversations =
                 Cardinality({ calls[t].conversationId : t \in ReturnedCalls })

\* Two calls over two ids returned one after the other: 4 messages, 2
\* conversations.
C29_Witness ==
    /\ nClears = 0
    /\ ReturnedCalls = Tasks
    /\ \E t \in Tasks : calls[t].alone
    /\ getStats.total_messages = 4
    /\ getStats.total_conversations = 2

\* The steps of processMessage in the order of lines 30-100.
ProcessSteps ==
    << "classifyQuery", "searchKnowledgeBaseWithSDK", "generateResponse",
       "shouldEscalate", "getSuggestedActions",
       "saveMessage(user)", "saveMessage(assistant)" >>

\* The number of steps a call has begun when it is at pc, a step being
\* begun only when the one before it has completed.
StepsBegun(pc) ==
    CASE pc = "idle" -> 0
      [] pc = "awaitClassify" -> 1
      [] pc = "awaitSearch" -> 2
      [] pc = "awaitGenerate" -> 3
      [] pc = "awaitEscalate" -> 4
      [] pc = "awaitSaveUser" -> 6
      [] pc \in {"awaitSaveAssistant", "returned"} -> 7

\* C26: the steps a call has begun are the first ones of classify,
\* retrieve, generate, escalation decision, suggested actions, append user
\* message, append assistant message, each one once; a call awaiting a step
\* has begun exactly the steps up to it, a call that returned all seven; a
\* call that failed begins no step any more, and a step of a call begins
\* later steps only.
C26_StepsInOrder ==
    [][ \A t \in Tasks :
          /\ IsPrefix(calls'[t].invoked, ProcessSteps)
          /\ calls'[t].pc # "failed" =>
                 Len(calls'[t].invoked) = StepsBegun(calls'[t].pc)
          /\ IsPrefix(calls[t].invoked, calls'[t].invoked)
          /\ calls[t].pc = "failed" =>
                 /\ calls'[t].pc = "failed"
                 /\ calls'[t].invoked = calls[t].invoked
          /\ (calls'[t].pc = "failed" /\ calls[t].pc # "failed") =>
                 calls'[t].invoked = calls[t].invoked ]_vars

\* One call returned after its seven steps; the other failed in the
\* generator after three.
C26_Witness ==
    \E t, u \in Tasks :
        /\ calls[t].pc = "returned"
        /\ calls[t].invoked = ProcessSteps
        /\ calls[u].pc = "failed"
        /\ calls[u].invoked = SubSeq(ProcessSteps, 1, 3)

\* In the history of id the messages of call b come before those of call a.
AppendedBefore(b, a, id) ==
    /\ id \in DOMAIN conversations
    /\ \E i, j \in 1..Len(conversations[id]) :
          conversations[id][i].req = b /\ conversations[id][j].req = a
    /\ \A i, j \in 1..Len(conversations[id]) :
          (conversations[id][i].req = b /\ conversations[id][j].req = a) => i < j

\* C22: with t1 invoked before t2, a message of t2 stands before a message
\* of t1 in a history only when t2 was invoked while t1 was in flight; the
\* state in which it does is C22_Witness.
C22_ReorderingNeedsOverlap ==
    \A id \in DOMAIN conversations :
        \A i, j \in 1..Len(conversations[id]) :
            (i < j /\ conversations[id][i].req = "t2" /\ conversations[id][j].req = "t1")
                => ~calls["t2"].alone

\* t1 was invoked before t2 for the same id, both returned, and the history
\* is user(t2), assistant(t2), user(t1), assistant(t1).
C22_Witness ==
    /\ calls["t1"].pc = "returned"
    /\ calls["t2"].pc = "returned"
    /\ calls["t1"].conversationId = "conv_123"
    /\ calls["t2"].conversationId = "conv_123"
    /\ Len(conversations["conv_123"]) = 4
    /\ AppendedBefore("t2", "t1", "conv_123")
    /\ conversations["conv_123"][1].role = "user"
    /\ conversations["conv_123"][2].role = "assistant"
    /\ conversations["conv_123"][3].role = "user"
    /\ conversations["conv_123"][4].role = "assistant"

\* title and content of entry are those of the metadata of row when it
\* carries them, the raw text chunk when it does not.
MetadataThenChunk(entry, row) ==
    LET metadata == MetadataOf(row)
    IN  /\ entry.title = OrString(metadata.title, row.chunk_content)
        /\ entry.content = OrString(metadata.content, row.chunk_content)

\* C27: the entries a search call returns have the title and the content of
\* their row's metadata when it carries them and the row's text chunk when
\* it does not, and the two methods normalise every raw hit to the same
\* title and content.
C27_MetadataThenChunk ==
    (search.pc = "done" /\ search.outcome[1].kind = "entries") =>
        LET rows == search.replies[Len(search.replies)].rows
        IN  \A j \in 1..Len(rows) :
                /\ MetadataThenChunk(search.outcome[1].entries[j], rows[j])
                /\ (NormalizeRow(rows[j]).ok /\ NormalizeResult(rows[j]).ok) =>
                      /\ NormalizeRow(rows[j]).entry.title =
                             NormalizeResult(rows[j]).entry.title
                      /\ NormalizeRow(rows[j]).entry.content =
                             NormalizeResult(rows[j]).entry.content

\* The body's message is missing or empty.
MessageMissingOrEmpty(body) == body.message \in { Undefined, Some("") }

\* C25: a POST /message whose message is missing or empty is answered 400
\* with success false, and the step that handles it leaves every
\* processMessage call and the conversation store as they were; no call of
\* processMessage ever has an empty message.
C25_InvalidRejectedAtBoundary ==
    [][ /\ (post' # post /\ MessageMissingOrEmpty(post'.body)) =>
              /\ post'.response # Undefined
              /\ post'.response[1].status = 400
              /\ post'.response[1].success = FALSE
              /\ calls' = calls
              /\ conversations' = conversations
        /\ \A t \in Tasks :
              calls'[t].pc # "idle" => calls'[t].request.message # "" ]_vars

\* After a request that was handled and stored its pair, a body with the
\* empty message was answered 400 'message: Message is required'.
C25_Witness ==
    /\ post.body.message = Some("")
    /\ post.response # Undefined
    /\ post.response[1].status = 400
    /\ post.response[1].success = FALSE
    /\ post.response[1].error = "message: Message is required"
    /\ calls["t1"].pc = "returned"
    /\ Len(getConversationHistory(calls["t1"].conversationId)) = 2

\* This step hands a request to chatAPI.sendMessage.
RequestSent == Len(chat'.sent) = Len(chat.sent) + 1

\* This step ends the pending send.
SendCompleted == chat.pc = "awaitSendMessage" /\ chat'.pc = "idle"

\* What C30 asks of one step of the hook.
C30_Step ==
    /\ RequestSent =>
        /\ ~chat.isLoading
        /\ trim(chat'.content) # ""
        /\ chat'.isLoading
        /\ Len(chat'.messages) = Len(chat.messages) + 1
        /\ chat'.messages[Len(chat'.messages)].role = "user"
        /\ chat'.messages[Len(chat'.messages)].content = chat'.content
        /\ chat'.sent[Len(chat'.sent)].message = chat'.content
    /\ SendCompleted =>
        /\ ~chat'.isLoading
        /\ ~chat'.isTyping
        /\ Len(chat'.added) = 2
        /\ chat'.added[1].role = "user"
        /\ chat'.added[1].content = chat.content
        /\ chat'.added[2].role = "assistant"
        /\ chat'.added[2].content = chat'.settled
        /\ chat'.messages[Len(chat'.messages)] = chat'.added[2]
        /\ (~chat.cleared => chat'.messages = chat.atSend \o chat'.added)
    /\ chat.isLoading =>
        /\ chat'.sent = chat.sent
        /\ \/ chat'.messages = chat.messages
           \/ SendCompleted
           \/ chat'.messages = << >>

\* C30: a send that was accepted (content not blank, nothing loading)
\* adds the user message and sends one request; it leads to a state with
\* isLoading and isTyping false, reached by a step that adds one assistant
\* message, whose content is the reply or the error message: the messages
\* the send added are the user message then that one, appended to the list
\* as it was at the send unless it was cleared since.  While isLoading is
\* true no request is sent and a sendMessage call adds nothing: the list
\* changes only by the completion or by a clear.
C30_SendCompletesOnce ==
    /\ [][C30_Step]_vars
    /\ (chat.isLoading ~> (chat.pc = "idle" /\ ~chat.isLoading /\ ~chat.isTyping))

\* Two sends completed, the first with the reply and the second with an
\* error message, and a call made while the hook was loading returned
\* early.
C30_Witness ==
    /\ chat.pc = "idle"
    /\ ~chat.isLoading
    /\ ~chat.isTyping
    /\ Len(chat.sent) = 2
    /\ Len(chat.messages) = 4
    /\ chat.messages[1].role = "user"
    /\ chat.messages[2].role = "assistant"
    /\ chat.messages[2].metadata[1].category = "technical"
    /\ chat.messages[3].role = "user"
    /\ chat.messages[4].role = "assistant"
    /\ chat.messages[4].metadata[1].category = "error"
    /\ chat.lastRefused = Some(" Hi ")

====
